---- MODULE Spec2Model ----
(***************************************************************************)
(* A model of the styx compiler front end: the logos-generated lexers      *)
(* (styxc_lexer), the operator tables (styxc_ast/operations.rs) and the    *)
(* type operations (styxc_types).                                          *)
(*                                                                         *)
(* A source text is a sequence of characters; a character is a one-element *)
(* string, except Aleph, which stands for the three-byte character U+2135  *)
(* used by test_token_lexer_error.  Positions inside the model are 1-based *)
(* character positions; Token.index, Token.len and LexerError.index are    *)
(* byte quantities, as in the code.                                        *)
(***************************************************************************)
EXTENDS Integers, Sequences, FiniteSets, TLC

VARIABLES
    source, pc, cursor, tokens, result, lit,   \* the lexers
    ops, tree,                                 \* the expression parser
    ta, tb, tres,                              \* the type operations
    functions, variables, current_function,    \* the walker
    wcall, wret,                               \* its last call and the outcome
    walk                                       \* the block its caller is walking

lexvars == <<source, pc, cursor, tokens, result, lit>>
opvars == <<ops, tree>>
tyvars == <<ta, tb, tres>>
wkvars == <<functions, variables, current_function, wcall, wret, walk>>
vars == <<lexvars, opvars, tyvars, wkvars>>

\* the walker of a specification that does not walk
WalkerIdle ==
    /\ functions = <<>> /\ variables = <<>> /\ current_function = "None"
    /\ wcall = "-" /\ wret = "-" /\ walk = "-"

(***************************************************************************)
(* Characters                                                              *)
(***************************************************************************)
Aleph == "U+2135"
NL == "\n"
DQ == "\""
SQ == "'"
BS == "\\"

Lower == {"a","b","c","d","e","f","g","h","i","j","k","l","m",
          "n","o","p","q","r","s","t","u","v","w","x","y","z"}
Upper == {"A","B","C","D","E","F","G","H","I","J","K","L","M",
          "N","O","P","Q","R","S","T","U","V","W","X","Y","Z"}
Digit == {"0","1","2","3","4","5","6","7","8","9"}
OctDigit == {"0","1","2","3","4","5","6","7"}
BinDigit == {"0","1"}
HexDigit == Digit \cup {"a","b","c","d","e","f"} \cup {"A","B","C","D","E","F"}
IdentStart == Lower \cup Upper \cup {"_"}
IdentCont == IdentStart \cup Digit
Space == {" ", "\t", "\n", "\r", "\f"}
SignChar == {"+", "-"}

\* UTF-8 length of a character: everything in the model is ASCII but Aleph.
ByteLen(c) == IF c = Aleph THEN 3 ELSE 1

RECURSIVE Bytes(_)
\* The UTF-8 bytes of a text; byte k of a multi-byte character c is <<c, k>>.
Bytes(s) ==
    IF s = <<>> THEN <<>>
    ELSE [k \in 1..ByteLen(Head(s)) |-> <<Head(s), k>>] \o Bytes(Tail(s))

RECURSIVE ByteSize(_)
ByteSize(s) == IF s = <<>> THEN 0 ELSE ByteLen(Head(s)) + ByteSize(Tail(s))

\* Byte offset of the character at (1-based) position p of s.
ByteOffset(s, p) == ByteSize(SubSeq(s, 1, p - 1))

Slice(s, p, n) == SubSeq(s, p, p + n - 1)

(***************************************************************************)
(* Regular-expression fragments.  Every XxxLen(s, p) is the length in      *)
(* characters of the longest match of one pattern starting at position p, *)
(* and 0 when the pattern does not match there.                            *)
(***************************************************************************)
RECURSIVE Run(_, _, _)
\* number of consecutive characters of class C from position p
Run(s, p, C) ==
    IF p <= Len(s) /\ s[p] \in C THEN 1 + Run(s, p + 1, C) ELSE 0

RECURSIVE RunNot(_, _, _)
\* number of consecutive characters outside class C from position p
RunNot(s, p, C) ==
    IF p <= Len(s) /\ s[p] \notin C THEN 1 + RunNot(s, p + 1, C) ELSE 0

SignLen(s, p) == IF p <= Len(s) /\ s[p] \in SignChar THEN 1 ELSE 0

\* [+-]?[0-9]+
IntLen(s, p) ==
    LET g == SignLen(s, p)
        n == Run(s, p + g, Digit)
    IN  IF n > 0 THEN g + n ELSE 0

\* [+-]?0<letter><class>+
PrefixedLen(s, p, letter, C) ==
    LET g == SignLen(s, p)
        q == p + g
        n == Run(s, q + 2, C)
    IN  IF q + 1 <= Len(s) /\ s[q] = "0" /\ s[q + 1] = letter /\ n > 0
        THEN g + 2 + n ELSE 0

\* [+-]?[0-9]*\.[0-9]+
FloatDotLen(s, p) ==
    LET g == SignLen(s, p)
        n == Run(s, p + g, Digit)
        q == p + g + n
        m == Run(s, q + 1, Digit)
    IN  IF q <= Len(s) /\ s[q] = "." /\ m > 0 THEN g + n + 1 + m ELSE 0

\* [+-]?[0-9]+e[+-]?[0-9]+
FloatExpLen(s, p) ==
    LET g == SignLen(s, p)
        n == Run(s, p + g, Digit)
        q == p + g + n
        h == SignLen(s, q + 1)
        m == Run(s, q + 1 + h, Digit)
    IN  IF n > 0 /\ q <= Len(s) /\ s[q] = "e" /\ m > 0
        THEN g + n + 1 + h + m ELSE 0

\* '.'   (. is any character but a newline)
CharLen(s, p) ==
    IF p + 2 <= Len(s) /\ s[p] = SQ /\ s[p + 1] # NL /\ s[p + 2] = SQ
    THEN 3 ELSE 0

\* '\\u[0-9a-fA-F][0-9a-fA-F][0-9a-fA-F][0-9a-fA-F]'
UnicodeCharLen(s, p) ==
    IF /\ p + 7 <= Len(s)
       /\ s[p] = SQ /\ s[p + 1] = BS /\ s[p + 2] = "u"
       /\ \A k \in 3..6 : s[p + k] \in HexDigit
       /\ s[p + 7] = SQ
    THEN 8 ELSE 0

Max(S) == CHOOSE m \in S : \A n \in S : n <= m

\* "([^"]|(\\"))*"   the string pattern of LiteralKind: a quote inside the
\* body has to be the second half of a backslash-quote pair.
LitStringLen(s, p) ==
    LET ends == {q \in (p + 1)..Len(s) :
                    /\ s[q] = DQ
                    /\ \A r \in (p + 1)..(q - 1) :
                          s[r] = DQ => (r - 1 > p /\ s[r - 1] = BS)}
    IN  IF p <= Len(s) /\ s[p] = DQ /\ ends # {}
        THEN Max(ends) - p + 1 ELSE 0

\* "("|[^"])*"   the string pattern of TokenKind: the body may hold quotes,
\* so the longest match runs to the last quote of the text.
TokStringLen(s, p) ==
    LET ends == {q \in (p + 1)..Len(s) : s[q] = DQ}
    IN  IF p <= Len(s) /\ s[p] = DQ /\ ends # {}
        THEN Max(ends) - p + 1 ELSE 0

\* [a-zA-Z_][a-zA-Z_0-9]*
IdentLen(s, p) ==
    IF p <= Len(s) /\ s[p] \in IdentStart
    THEN 1 + Run(s, p + 1, IdentCont) ELSE 0

\* \s+
WhitespaceLen(s, p) == Run(s, p, Space)

\* #[^\n]+
LineCommentLen(s, p) ==
    LET n == RunNot(s, p + 1, {NL})
    IN  IF p <= Len(s) /\ s[p] = "#" /\ n > 0 THEN 1 + n ELSE 0

\* /\*(.|\n)*\*/   the body matches anything, so the longest match runs to
\* the last star-slash of the text.
BlockCommentLen(s, p) ==
    LET ends == {q \in (p + 2)..(Len(s) - 1) : s[q] = "*" /\ s[q + 1] = "/"}
    IN  IF p + 1 <= Len(s) /\ s[p] = "/" /\ s[p + 1] = "*" /\ ends # {}
        THEN Max(ends) + 1 - p + 1 ELSE 0

(***************************************************************************)
(* Base and LiteralKind (the literal sub-lexer)                            *)
(***************************************************************************)
StartsWith(s, c) == Len(s) >= 1 /\ s[1] = c

\* Base::parse
Base_parse(s) ==
    LET slice == IF StartsWith(s, "-") THEN Tail(s) ELSE s
    IN  IF ByteSize(slice) < 2 THEN "Decimal"
        ELSE CASE SubSeq(slice, 1, 2) = <<"0", "x">> -> "Hexadecimal"
               [] SubSeq(slice, 1, 2) = <<"0", "o">> -> "Octal"
               [] SubSeq(slice, 1, 2) = <<"0", "b">> -> "Binary"
               [] OTHER -> "Decimal"

NoBase == "-"
LitInt(b) == [k |-> "Int", base |-> b]
LitFloat(b) == [k |-> "Float", base |-> b]
LitChar == [k |-> "Char", base |-> NoBase]
LitString == [k |-> "String", base |-> NoBase]
LitError == [k |-> "Error", base |-> NoBase]
NoLit == [k |-> "-", base |-> NoBase]

\* The patterns of LiteralKind at position p: <<variant, match length>>.
LiteralRules(s, p) ==
    << <<"Int", IntLen(s, p)>>,
       <<"Int", PrefixedLen(s, p, "x", HexDigit)>>,
       <<"Int", PrefixedLen(s, p, "d", Digit)>>,
       <<"Int", PrefixedLen(s, p, "o", OctDigit)>>,
       <<"Int", PrefixedLen(s, p, "b", BinDigit)>>,
       <<"Float", FloatDotLen(s, p)>>,
       <<"Float", FloatExpLen(s, p)>>,
       <<"Char", CharLen(s, p)>>,
       <<"Char", UnicodeCharLen(s, p)>>,
       <<"String", LitStringLen(s, p)>> >>

\* logos picks the longest match among the patterns.
Longest(rules) ==
    LET i == CHOOSE i \in DOMAIN rules :
                 \A j \in DOMAIN rules : rules[j][2] <= rules[i][2]
    IN  rules[i]

\* LiteralKind::lexer(s).next(): the first token of the literal sub-lexer,
\* with the length of its slice; an unmatched character is an Error token.
LiteralKind_next(s) ==
    IF s = <<>> THEN [some |-> FALSE, kind |-> NoLit, len |-> 0]
    ELSE LET m == Longest(LiteralRules(s, 1))
             sl == Slice(s, 1, m[2])
         IN  IF m[2] = 0 THEN [some |-> TRUE, kind |-> LitError, len |-> 1]
             ELSE [some |-> TRUE,
                   kind |-> CASE m[1] = "Int" -> LitInt(Base_parse(sl))
                              [] m[1] = "Float" -> LitFloat(Base_parse(sl))
                              [] m[1] = "Char" -> LitChar
                              [] OTHER -> LitString,
                   len |-> m[2]]

\* LiteralKind::parse: Ok(kind) of the first token, Err when there is none.
LiteralKind_parse(s) ==
    LET t == LiteralKind_next(s)
    IN  [ok |-> t.some, kind |-> t.kind]

(***************************************************************************)
(* TokenKind (the token lexer)                                             *)
(***************************************************************************)
PunctKind ==
    [c \in {";","{","}","(",")","[","]","+","-","*","/","%","=","!","&","|",
            "<",">","^","~","?",":",".","@"} |->
       CASE c = ";" -> "Semi"        [] c = "{" -> "OpenBrace"
         [] c = "}" -> "CloseBrace"  [] c = "(" -> "OpenParen"
         [] c = ")" -> "CloseParen"  [] c = "[" -> "OpenBracket"
         [] c = "]" -> "CloseBracket" [] c = "+" -> "Plus"
         [] c = "-" -> "Minus"       [] c = "*" -> "Star"
         [] c = "/" -> "Slash"       [] c = "%" -> "Percent"
         [] c = "=" -> "Eq"          [] c = "!" -> "Not"
         [] c = "&" -> "And"         [] c = "|" -> "Or"
         [] c = "<" -> "Lt"          [] c = ">" -> "Gt"
         [] c = "^" -> "Caret"       [] c = "~" -> "Tilde"
         [] c = "?" -> "Question"    [] c = ":" -> "Colon"
         [] c = "." -> "Dot"         [] c = "@" -> "At"]

PunctLen(s, p) == IF p <= Len(s) /\ s[p] \in DOMAIN PunctKind THEN 1 ELSE 0

PunctTag(s, p) ==
    IF p <= Len(s) /\ s[p] \in DOMAIN PunctKind THEN PunctKind[s[p]] ELSE "Error"

\* The patterns of TokenKind at position p: <<variant, match length>>.
TokenRules(s, p) ==
    << <<"Ident", IdentLen(s, p)>>,
       <<"Whitespace", WhitespaceLen(s, p)>>,
       <<"LineComment", LineCommentLen(s, p)>>,
       <<"BlockComment", BlockCommentLen(s, p)>>,
       <<"Literal", IntLen(s, p)>>,
       <<"Literal", PrefixedLen(s, p, "x", HexDigit)>>,
       <<"Literal", PrefixedLen(s, p, "d", Digit)>>,
       <<"Literal", PrefixedLen(s, p, "o", OctDigit)>>,
       <<"Literal", PrefixedLen(s, p, "b", BinDigit)>>,
       <<"Literal", FloatDotLen(s, p)>>,
       <<"Literal", FloatExpLen(s, p)>>,
       <<"Literal", CharLen(s, p)>>,
       <<"Literal", TokStringLen(s, p)>>,
       <<PunctTag(s, p), PunctLen(s, p)>> >>

\* Skipped without the logos::skip callback on Whitespace
Skipped_Nothing(tag) == FALSE

\* The patterns that carry the logos::skip callback.
Skipped(tag) == tag = "Whitespace"

Kind(tag, l) == [tag |-> tag, lit |-> l]

RECURSIVE TokenKind_next(_, _)
\* Lexer<TokenKind>::next() with `cur` characters consumed so far: None at
\* the end of the text, the longest match otherwise; a skipped match is
\* consumed and the scan goes on, a position without a match yields an Error
\* token of one character, and a Literal whose callback fails is an Error.
TokenKind_next(s, cur) ==
    IF cur >= Len(s)
    THEN [some |-> FALSE, kind |-> Kind("None", NoLit), start |-> cur + 1, len |-> 0]
    ELSE LET m == Longest(TokenRules(s, cur + 1))
             cb == LiteralKind_parse(Slice(s, cur + 1, m[2]))
         IN  IF m[2] = 0
             THEN [some |-> TRUE, kind |-> Kind("Error", NoLit),
                   start |-> cur + 1, len |-> 1]
             ELSE IF Skipped(m[1])
             THEN TokenKind_next(s, cur + m[2])
             ELSE IF m[1] = "Literal"
             THEN [some |-> TRUE,
                   kind |-> IF cb.ok THEN Kind("Literal", cb.kind)
                            ELSE Kind("Error", NoLit),
                   start |-> cur + 1, len |-> m[2]]
             ELSE [some |-> TRUE, kind |-> Kind(m[1], NoLit),
                   start |-> cur + 1, len |-> m[2]]

(***************************************************************************)
(* The inputs: every text over Alphabet of at most MaxLen characters, and  *)
(* the texts of the crate's tests and documentation.                       *)
(***************************************************************************)
MaxLen == 3

Alphabet == {"1", "0", "x", "e", ".", "+", "-", " ", NL, SQ, DQ, BS, "#", "/", "*", Aleph}

SampleSources ==
    {
      \* literal_kind::test_int
      <<"1", "2", "3", "4">>,
      \* test_int_hex
      <<"0", "x", "1", "2", "3", "4">>,
      \* test_int_oct
      <<"0", "o", "1", "2", "3", "4">>,
      \* test_int_bin
      <<"0", "b", "1", "0", "1", "0", "0">>,
      \* a signed hexadecimal integer
      <<"+", "0", "x", "1", "f">>,
      \* test_float
      <<"1", "2", ".", "3", "4">>,
      \* test_float_exp
      <<"1", "2", ".", "3", "4", "e", "-", "5">>,
      \* test_float_exp
      <<"-", "4", "3", "2", "e", "+", "1", "0">>,
      \* the documentation of LiteralKind::Float
      <<"1", ".", "0", "e", "-", "1", "0">>,
      \* the documentation of LiteralKind::Float
      <<"1", ".", "0", "e", "+", "1", "0">>,
      \* test_char
      <<SQ, "a", SQ>>,
      \* test_unicode_char
      <<SQ, BS, "u", "1", "2", "3", "4", SQ>>,
      \* test_string
      <<DQ, "f", "o", "o", DQ>>,
      \* token::test_expression
      <<"h", "e", "l", "l", "o", ":", " ", "i", "n", "t", " ", "=", " ", "2", ";">>,
      \* token::test_binary_expression
      <<"1", " ", "+", " ", "2", " ", "*", " ", "3">>,
      \* the same expression without blanks
      <<"1", "+", "2">>,
      \* the same expression with one blank
      <<"1", " ", "+", "2">>,
      \* token::test_block_comment, shortened
      <<"/", "*", "t", "h", "i", "s", "*", "/">>,
      \* two block comments around code
      <<"/", "*", "a", "*", "/", " ", "b", " ", "/", "*", "c", "*", "/">>,
      \* token::test_line_comment, shortened
      <<"#", " ", "a", NL, "b">>,
      \* token_lexer::test_token_lexer, shortened
      <<"f", "n", " ", "f", "(", ")", " ", "{", NL, " ", "#", " ", "c", NL, " ", "l", "e", "t", " ", "x", " ", "=", " ", "1", ";", NL, "}">>,
      \* token_lexer::test_token_lexer_error
      <<"l", "e", "t", " ", "h", "e", "l", "l", "o", "_", "w", "o", "r", "l", "d", " ", "=", " ", Aleph>>
    }

Sources == UNION {[1..n -> Alphabet] : n \in 0..MaxLen} \cup SampleSources

(***************************************************************************)
(* TokenLexer::parse, one iteration of its loop per step                   *)
(***************************************************************************)
NoError == [index |-> 0, line |-> 0, col |-> 0, slice |-> <<>>]
NoResult == [tag |-> "None", tokens |-> <<>>, error |-> NoError]
NoToken == [some |-> FALSE, kind |-> NoLit, len |-> 0]

\* Token with len counted in characters instead of bytes
Token_CharLen(s, t) ==
    [kind |-> t.kind,
     index |-> ByteOffset(s, t.start),
     len |-> t.len,
     slice |-> Slice(s, t.start, t.len)]

\* The Token built from a match
Token(s, t) ==
    [kind |-> t.kind,
     index |-> ByteOffset(s, t.start),
     len |-> ByteSize(Slice(s, t.start, t.len)),
     slice |-> Slice(s, t.start, t.len)]

\* The LexerError built from an Error token
LexerError(s, t) ==
    [index |-> ByteOffset(s, t.start),
     line |-> 0,
     col |-> 0,
     slice |-> Slice(s, t.start, t.len)]

LexInit ==
    /\ source \in Sources
    /\ pc = "parse"
    /\ cursor = 0
    /\ tokens = <<>>
    /\ result = NoResult
    /\ lit = NoToken
    /\ ops = <<>> /\ tree = <<>>
    /\ ta = "-" /\ tb = "-" /\ tres = "-"
    /\ WalkerIdle

\* an iteration that gets a token: push it
ParsePush ==
    /\ pc = "parse"
    /\ LET t == TokenKind_next(source, cursor)
       IN  /\ t.some
           /\ t.kind.tag # "Error"
           /\ tokens' = Append(tokens, Token(source, t))
           /\ cursor' = t.start + t.len - 1
    /\ UNCHANGED <<source, pc, result, lit>>
    /\ UNCHANGED <<opvars, tyvars, wkvars>>

\* ParseErr made fail-soft: the Error token is pushed and the loop goes on
ParseErr_FailSoft ==
    /\ pc = "parse"
    /\ LET t == TokenKind_next(source, cursor)
       IN  /\ t.some
           /\ t.kind.tag = "Error"
           /\ tokens' = Append(tokens, Token(source, t))
           /\ cursor' = t.start + t.len - 1
    /\ UNCHANGED <<source, pc, result, lit>>
    /\ UNCHANGED <<opvars, tyvars, wkvars>>

\* an iteration that gets an Error token: return Err
ParseErr ==
    /\ pc = "parse"
    /\ LET t == TokenKind_next(source, cursor)
       IN  /\ t.some
           /\ t.kind.tag = "Error"
           /\ result' = [tag |-> "Err", tokens |-> <<>>,
                         error |-> LexerError(source, t)]
           /\ cursor' = t.start + t.len - 1
    /\ pc' = "done"
    /\ UNCHANGED <<source, tokens, lit>>
    /\ UNCHANGED <<opvars, tyvars, wkvars>>

\* the lexer is exhausted: return Ok(tokens)
ParseOk ==
    /\ pc = "parse"
    /\ LET t == TokenKind_next(source, cursor)
       IN  /\ ~t.some
           /\ result' = [tag |-> "Ok", tokens |-> tokens, error |-> NoError]
           /\ cursor' = Len(source)
    /\ pc' = "done"
    /\ UNCHANGED <<source, tokens, lit>>
    /\ UNCHANGED <<opvars, tyvars, wkvars>>

\* LiteralKind::lexer(source).next(), as the literal_kind tests call it
LiteralNext ==
    /\ ~lit.some
    /\ source # <<>>
    /\ lit' = LiteralKind_next(source)
    /\ UNCHANGED <<source, pc, cursor, tokens, result>>
    /\ UNCHANGED <<opvars, tyvars, wkvars>>

LexNext == ParsePush \/ ParseErr \/ ParseOk \/ LiteralNext

LexSpec == LexInit /\ [][LexNext]_vars

(***************************************************************************)
(* Properties of the lexer                                                 *)
(***************************************************************************)
RECURSIVE FirstUnmatched(_, _)
\* Scanning from position p, the first position at which no pattern of
\* TokenKind matches; 0 when the scan gets to the end of the text.
FirstUnmatched(s, p) ==
    IF p > Len(s) THEN 0
    ELSE LET n == Longest(TokenRules(s, p))[2]
         IN  IF n = 0 THEN p ELSE FirstUnmatched(s, p + n)

\* C1: TokenLexer::parse is fail-fast.  When the scan reaches a position
\* where no rule matches, parse returns Err and no tokens; the error's index
\* is the byte offset of that position, its slice the character there, and
\* line and col are 0.  When there is no such position parse returns Ok.
C1_FailFast ==
    pc = "done" =>
        LET p == FirstUnmatched(source, 1)
        IN  IF p = 0
            THEN result.tag = "Ok" /\ result.error = NoError
            ELSE /\ result.tag = "Err"
                 /\ result.tokens = <<>>
                 /\ result.error = [index |-> ByteOffset(source, p),
                                    line |-> 0, col |-> 0,
                                    slice |-> <<source[p]>>]

\* parse has failed at byte 18 on the Aleph of test_token_lexer_error, after
\* matching tokens
C1_Witness ==
    /\ pc = "done"
    /\ result.tag = "Err"
    /\ result.error.index = 18
    /\ result.error.slice = <<Aleph>>
    /\ Len(tokens) = 3

\* byte positions (0-based) that a token covers
Covered(t) == {b \in 0..ByteSize(source) : t.index <= b /\ b < t.index + t.len}

CommentTags == {"LineComment", "BlockComment"}

\* C2 as claimed: a successful tokenization emits no whitespace token, no
\* line-comment token and no block-comment token.
C2_NoTrivia ==
    result.tag = "Ok" =>
        \A i \in DOMAIN result.tokens :
            result.tokens[i].kind.tag \notin {"Whitespace"} \cup CommentTags

\* C2 as amended: a successful tokenization emits no whitespace token, and
\* whitespace is all it leaves out: every character outside the emitted
\* tokens is a whitespace character (comments are emitted as tokens).
C2_OnlyWhitespaceDropped ==
    result.tag = "Ok" =>
        /\ \A i \in DOMAIN result.tokens :
              /\ result.tokens[i].kind.tag # "Whitespace"
              /\ result.tokens[i].slice[1] \notin Space
        /\ \A p \in 1..Len(source) :
              \/ source[p] \in Space
              \/ \E i \in DOMAIN result.tokens :
                    ByteOffset(source, p) \in Covered(result.tokens[i])

\* a successful tokenization of a text with blanks, a newline and a line
\* comment, whose LineComment token is in the output
C2_Witness ==
    /\ result.tag = "Ok"
    /\ \E p \in 1..Len(source) : source[p] = " "
    /\ \E p \in 1..Len(source) : source[p] = NL
    /\ \E i \in DOMAIN result.tokens :
          result.tokens[i].kind.tag = "LineComment"
    /\ \E i \in DOMAIN result.tokens :
          result.tokens[i].kind.tag = "Ident"

\* C3: on success the tokens are in source order with strictly increasing
\* index, do not overlap, and each slice is the source text in the byte
\* range [index, index + len).
C3_TokensOrdered ==
    result.tag = "Ok" =>
        /\ \A i \in DOMAIN result.tokens :
              LET t == result.tokens[i]
              IN  /\ t.index + t.len <= ByteSize(source)
                  /\ Bytes(t.slice) =
                        SubSeq(Bytes(source), t.index + 1, t.index + t.len)
        /\ \A i, j \in DOMAIN result.tokens :
              i < j => /\ result.tokens[i].index < result.tokens[j].index
                       /\ result.tokens[i].index + result.tokens[i].len
                             <= result.tokens[j].index

\* a successful tokenization with several tokens, one of them holding the
\* three-byte character
C3_Witness ==
    /\ result.tag = "Ok"
    /\ Len(result.tokens) >= 2
    /\ \E i \in DOMAIN result.tokens :
          /\ Aleph \in {result.tokens[i].slice[k] :
                           k \in DOMAIN result.tokens[i].slice}
          /\ result.tokens[i].len = Len(result.tokens[i].slice) + 2

\* the text without one leading sign
Unsigned(s) == IF Len(s) >= 1 /\ s[1] \in SignChar THEN Tail(s) ELSE s

\* the base that the first two characters of an unsigned literal stand for
PrefixBase(u) ==
    IF Len(u) < 2 THEN "Decimal"
    ELSE CASE SubSeq(u, 1, 2) = <<"0", "x">> -> "Hexadecimal"
           [] SubSeq(u, 1, 2) = <<"0", "o">> -> "Octal"
           [] SubSeq(u, 1, 2) = <<"0", "b">> -> "Binary"
           [] OTHER -> "Decimal"

\* C4: the Base of a matched integer or float literal is the base of the
\* first two characters after any leading sign, so that Base::parse gives
\* the same answer for s, "+" s and "-" s.
C4_BaseIgnoresSign ==
    \A i \in DOMAIN tokens :
        tokens[i].kind.lit.k \in {"Int", "Float"} =>
            LET u == Unsigned(tokens[i].slice)
            IN  /\ tokens[i].kind.lit.base = PrefixBase(u)
                /\ Base_parse(<<"+">> \o u) = Base_parse(u)
                /\ Base_parse(<<"-">> \o u) = Base_parse(u)

\* C5: a text that LiteralKind classifies as a whole as a non-error literal
\* is lexed by the token lexer as exactly one Literal token that spans the
\* text and carries the same LiteralKind.
C5_LexersAgree ==
    (/\ pc = "done"
     /\ lit.some
     /\ lit.kind # LitError
     /\ lit.len = Len(source))
    => /\ result.tag = "Ok"
       /\ Len(result.tokens) = 1
       /\ result.tokens[1].kind = Kind("Literal", lit.kind)
       /\ result.tokens[1].index = 0
       /\ result.tokens[1].len = ByteSize(source)

\* the floating-point texts that C6 names
C6Texts ==
    { <<"1", "2", ".", "3", "4", "e", "-", "5">>,
      <<"1", ".", "0", "e", "-", "1", "0">>,
      <<"1", ".", "0", "e", "+", "1", "0">>,
      <<"1", "2", ".", "3", "4">>,
      <<"-", "4", "3", "2", "e", "+", "1", "0">> }

\* C6: a floating-point literal in scientific notation, with or without a
\* fractional part, is matched as one Float(Decimal) literal that covers the
\* entire text.
C6_ScientificFloat ==
    (source \in C6Texts /\ lit.some) =>
        /\ lit.kind = LitFloat("Decimal")
        /\ lit.len = Len(source)

(***************************************************************************)
(* BinaryOp: the operator tables of styxc_ast/operations.rs                *)
(***************************************************************************)
Assignments ==
    {"Assign", "PlusEq", "MinusEq", "MulEq", "DivEq", "ModEq", "BitwiseAndEq",
     "BitwiseOrEq", "BitwiseXorEq", "ShlEq", "ShrEq"}

BinaryOp ==
    {"Plus", "Minus", "Mul", "Div", "Mod", "BitwiseAnd", "BitwiseOr",
     "BitwiseXor", "LogicalAnd", "LogicalOr", "Shl", "Shr", "Eq", "Ne",
     "Lt", "Gt", "Le", "Ge"} \cup Assignments

\* precedence without the LogicalOr arm, which then falls to the default
precedence_NoLogicalOr(op) ==
    CASE op \in {"Mul", "Div", "Mod"} -> 5
      [] op \in {"Plus", "Minus"} -> 6
      [] op \in {"Shl", "Shr"} -> 7
      [] op = "BitwiseAnd" -> 8
      [] op = "BitwiseXor" -> 9
      [] op = "BitwiseOr" -> 10
      [] op \in {"Lt", "Gt", "Le", "Ge"} -> 11
      [] op \in {"Eq", "Ne"} -> 12
      [] op = "LogicalAnd" -> 13
      [] OTHER -> 15

\* BinaryOp::precedence
precedence(op) ==
    CASE op \in {"Mul", "Div", "Mod"} -> 5
      [] op \in {"Plus", "Minus"} -> 6
      [] op \in {"Shl", "Shr"} -> 7
      [] op = "BitwiseAnd" -> 8
      [] op = "BitwiseXor" -> 9
      [] op = "BitwiseOr" -> 10
      [] op \in {"Lt", "Gt", "Le", "Ge"} -> 11
      [] op \in {"Eq", "Ne"} -> 12
      [] op = "LogicalAnd" -> 13
      [] op = "LogicalOr" -> 14
      [] OTHER -> 15

\* associativity with the assignment forms right-to-left
associativity_AssignRtl(op) == IF op \in Assignments THEN "Rtl" ELSE "Ltr"

\* BinaryOp::associativity
associativity(op) == "Ltr"

(***************************************************************************)
(* The precedence-climbing parser that consumes the tables.  Its input is  *)
(* operand 0, ops[1], operand 1, ..., ops[n], operand n; a tree is written *)
(* as its fully parenthesised text.                                        *)
(***************************************************************************)
MaxOps == 2

OperandNames == <<"a", "b", "c", "d", "e", "f">>

Leaf(i) == <<OperandNames[i + 1]>>
Node(op, l, r) == <<"(">> \o l \o <<op>> \o r \o <<")">>

\* the threshold of the outermost call: every operator is at least it
MinThreshold == 0

RECURSIVE ParseExpr(_, _, _), ParseLoop(_, _, _, _)
\* Parse operand i, then the operators after it whose precedence is at least
\* min.  The result is the tree and the index of the last operand consumed.
ParseExpr(os, i, min) == ParseLoop(os, Leaf(i), i, min)

\* With lhs parsed up to operand i: while the next operator has precedence at
\* least min, consume it and parse its right operand with the floor
\* precedence + 1 (Ltr) or precedence (Rtl).
ParseLoop(os, lhs, i, min) ==
    IF i + 1 > Len(os) THEN [tree |-> lhs, last |-> i]
    ELSE LET op == os[i + 1]
             floor == IF associativity(op) = "Ltr" THEN precedence(op) + 1
                      ELSE precedence(op)
             rhs == ParseExpr(os, i + 1, floor)
         IN  IF precedence(op) >= min
             THEN ParseLoop(os, Node(op, lhs, rhs.tree), rhs.last, min)
             ELSE [tree |-> lhs, last |-> i]

OpInit ==
    /\ ops \in UNION {[1..n -> BinaryOp] : n \in 0..MaxOps}
    /\ tree = <<>>
    /\ source = <<>> /\ pc = "-" /\ cursor = 0 /\ tokens = <<>>
    /\ result = NoResult /\ lit = NoToken
    /\ ta = "-" /\ tb = "-" /\ tres = "-"
    /\ WalkerIdle

\* parse the whole expression
Parse ==
    /\ tree = <<>>
    /\ tree' = ParseExpr(ops, 0, MinThreshold).tree
    /\ UNCHANGED <<ops, lexvars, tyvars, wkvars>>

OpNext == Parse

OpSpec == OpInit /\ [][OpNext]_vars

(***************************************************************************)
(* Properties of the operator tables                                       *)
(***************************************************************************)
\* the table of ranks as C7 states it, by operator class
ClassRank ==
    [op \in BinaryOp |->
        CASE op \in {"Mul", "Div", "Mod"} -> 5
          [] op \in {"Plus", "Minus"} -> 6
          [] op \in {"Shl", "Shr"} -> 7
          [] op \in {"BitwiseAnd"} -> 8
          [] op \in {"BitwiseXor"} -> 9
          [] op \in {"BitwiseOr"} -> 10
          [] op \in {"Lt", "Gt", "Le", "Ge"} -> 11
          [] op \in {"Eq", "Ne"} -> 12
          [] op \in {"LogicalAnd"} -> 13
          [] op \in {"LogicalOr"} -> 14
          [] op \in Assignments -> 15]

\* C7: precedence is total over BinaryOp and realises the fixed table:
\* multiplicative 5, additive 6, shift 7, bitwise AND 8, XOR 9, OR 10,
\* relational 11, equality 12, logical AND 13, logical OR 14, every
\* assignment form 15, and no other operator has rank 15.
C7_PrecedenceTable ==
    \A i \in DOMAIN ops :
        /\ precedence(ops[i]) \in 5..15
        /\ precedence(ops[i]) = ClassRank[ops[i]]
        /\ (precedence(ops[i]) = 15 <=> ops[i] \in Assignments)

\* an expression with an assignment and a logical OR has been parsed
C7_Witness ==
    /\ tree # <<>>
    /\ \E i, j \in DOMAIN ops : ops[i] \in Assignments /\ ops[j] = "LogicalOr"

\* an input "a o1 b o2 c" has been parsed
Parsed3 == Len(ops) = 2 /\ tree # <<>>

LeftNested == Node(ops[2], Node(ops[1], Leaf(0), Leaf(1)), Leaf(2))
RightNested == Node(ops[1], Leaf(0), Node(ops[2], Leaf(1), Leaf(2)))

C9_EqualRankGroupsLeft ==
    /\ \A i \in DOMAIN ops : associativity(ops[i]) = "Ltr"
    /\ (Parsed3 /\ ClassRank[ops[1]] = ClassRank[ops[2]]) => tree = LeftNested

\* "a = b = c" has been parsed, as (a = b) = c
C9_Witness ==
    /\ ops = <<"Assign", "Assign">>
    /\ tree = Node("Assign", Node("Assign", Leaf(0), Leaf(1)), Leaf(2))

(***************************************************************************)
(* Type: the type operations of styxc_types                                *)
(***************************************************************************)
\* A Type value: the variant, its member types in order (for Func the
\* argument types followed by the return type) and, for Reference, the name.
Ty(tag, args, name) == [tag |-> tag, args |-> args, name |-> name]

TInt == Ty("Int", <<>>, "")
TFloat == Ty("Float", <<>>, "")
TBool == Ty("Bool", <<>>, "")
TChar == Ty("Char", <<>>, "")
TString == Ty("String", <<>>, "")
TUnit == Ty("Unit", <<>>, "")
TInfer == Ty("Infer", <<>>, "")
TNever == Ty("Never", <<>>, "")
Tuple(ts) == Ty("Tuple", ts, "")
Array(t) == Ty("Array", <<t>>, "")
Map(k, v) == Ty("Map", <<k, v>>, "")
Set(t) == Ty("Set", <<t>>, "")
Optional(t) == Ty("Optional", <<t>>, "")
Union(ts) == Ty("Union", ts, "")
Intersection(ts) == Ty("Intersection", ts, "")
Circular(t) == Ty("Circular", <<t>>, "")
Func(as, r) == Ty("Func", as \o <<r>>, "")
Reference(n) == Ty("Reference", <<>>, n)

\* is_primitive
is_primitive(t) == t.tag \in {"Int", "Float", "Bool", "String"}

\* equate_primitives
equate_primitives(a, b) ==
    CASE a.tag = "Int" /\ b.tag = "Int" -> TRUE
      [] a.tag = "Float" /\ b.tag = "Float" -> TRUE
      [] a.tag = "Bool" /\ b.tag = "Bool" -> TRUE
      [] a.tag = "String" /\ b.tag = "String" -> TRUE
      [] OTHER -> FALSE

\* equate_types: primitive equality when both are primitives; the match on
\* (a, b) that follows has the single arm `_ => false`.
equate_types(a, b) ==
    IF is_primitive(a) /\ is_primitive(b) THEN equate_primitives(a, b)
    ELSE FALSE

\* Vec<Type>::contains: some element is == to t, and == on Type is
\* equate_types (impl PartialEq for Type)
contains(ts, t) == \E i \in DOMAIN ts : equate_types(ts[i], t)

\* is_subtype
is_subtype(a, b) ==
    IF equate_types(a, b) THEN FALSE
    ELSE IF b.tag = "Union" THEN contains(b.args, a)
    ELSE FALSE

\* intersect that returns self whatever the other type is
intersect_AlwaysSelf(a, b) == a

\* Type::intersect
intersect(a, b) == IF equate_types(a, b) THEN a ELSE TNever

\* validate_map_insertion
validate_map_insertion(k, v, map) ==
    IF map.tag = "Map"
    THEN is_subtype(map.args[1], k) /\ is_subtype(map.args[2], v)
    ELSE FALSE

\* validate_set_insertion
validate_set_insertion(v, set) ==
    IF set.tag = "Set" THEN is_subtype(set.args[1], v) ELSE FALSE

\* validate_array_insertion
validate_array_insertion(v, array) ==
    IF array.tag = "Array" THEN is_subtype(array.args[1], v) ELSE FALSE

(***************************************************************************)
(* The inputs of the type operations: the variants without members, and    *)
(* every composite whose members are drawn from Members, with at most      *)
(* MaxMembers members in a list.                                           *)
(***************************************************************************)
MaxMembers == 2

Nullary == {TInt, TFloat, TBool, TChar, TString, TUnit, TInfer, TNever}
Members == {TInt, TFloat, TChar}
MemberLists == UNION {[1..n -> Members] : n \in 0..MaxMembers}

Types ==
    Nullary
    \cup {Tuple(ts) : ts \in MemberLists}
    \cup {Array(t) : t \in Members}
    \cup {Map(k, v) : k \in Members, v \in Members}
    \cup {Set(t) : t \in Members}
    \cup {Optional(t) : t \in Members}
    \cup {Union(ts) : ts \in MemberLists}
    \cup {Intersection(ts) : ts \in MemberLists}
    \cup {Circular(t) : t \in Members}
    \cup {Func(ts, r) : ts \in MemberLists, r \in Members}
    \cup {Reference(n) : n \in {"T", "U"}}

\* the outcome of a type operation: its name, its boolean or Type result and,
\* for validate_map_insertion, the key type it was given
TypeResult(op, b, t, k) == [op |-> op, bool |-> b, ty |-> t, key |-> k]

\* the key types given to validate_map_insertion
KeyTypes == Members \cup {Union(<<m>>) : m \in Members}

NoTypeResult == TypeResult("-", FALSE, TNever, TNever)

TyInit ==
    /\ ta \in Types
    /\ tb \in Types
    /\ tres = NoTypeResult
    /\ source = <<>> /\ pc = "-" /\ cursor = 0 /\ tokens = <<>>
    /\ result = NoResult /\ lit = NoToken
    /\ ops = <<>> /\ tree = <<>>
    /\ WalkerIdle

\* equate_types(ta, tb)
EquateTypes ==
    /\ tres = NoTypeResult
    /\ tres' = TypeResult("equate_types", equate_types(ta, tb), TNever, TNever)
    /\ UNCHANGED <<ta, tb, lexvars, opvars, wkvars>>

\* is_subtype(ta, tb)
IsSubtype ==
    /\ tres = NoTypeResult
    /\ tres' = TypeResult("is_subtype", is_subtype(ta, tb), TNever, TNever)
    /\ UNCHANGED <<ta, tb, lexvars, opvars, wkvars>>

\* ta.intersect(tb)
Intersect ==
    /\ tres = NoTypeResult
    /\ tres' = TypeResult("intersect", FALSE, intersect(ta, tb), TNever)
    /\ UNCHANGED <<ta, tb, lexvars, opvars, wkvars>>

\* validate_array_insertion(ta, tb)
ValidateArrayInsertion ==
    /\ tres = NoTypeResult
    /\ tres' = TypeResult("validate_array_insertion",
                          validate_array_insertion(ta, tb), TNever, TNever)
    /\ UNCHANGED <<ta, tb, lexvars, opvars, wkvars>>

\* validate_set_insertion(ta, tb)
ValidateSetInsertion ==
    /\ tres = NoTypeResult
    /\ tres' = TypeResult("validate_set_insertion",
                          validate_set_insertion(ta, tb), TNever, TNever)
    /\ UNCHANGED <<ta, tb, lexvars, opvars, wkvars>>

\* validate_map_insertion(k, ta, tb) for a key type k
ValidateMapInsertion ==
    /\ tres = NoTypeResult
    /\ \E k \in KeyTypes :
          tres' = TypeResult("validate_map_insertion",
                             validate_map_insertion(k, ta, tb), TNever, k)
    /\ UNCHANGED <<ta, tb, lexvars, opvars, wkvars>>

TyNext ==
    \/ EquateTypes
    \/ IsSubtype
    \/ Intersect
    \/ ValidateArrayInsertion
    \/ ValidateSetInsertion
    \/ ValidateMapInsertion

TySpec == TyInit /\ [][TyNext]_vars

(***************************************************************************)
(* Properties of the type operations                                       *)
(***************************************************************************)
\* C10: equate_types(a, b) is true if and only if a and b are the same
\* primitive or structurally identical composite types, and false for every
\* other pair; in particular equate_types(t, t) is true for every type t.
C10_EquateIsStructural ==
    tres.op = "equate_types" =>
        /\ tres.bool = (ta = tb)
        /\ (ta = tb => tres.bool)

\* C11: is_subtype(a, b) is false whenever a and b are equal, true whenever
\* b is a Union whose member list contains a, for every type a, and false in
\* every other case.
C11_SubtypeIsUnionMembership ==
    tres.op = "is_subtype" =>
        tres.bool = (/\ ta # tb
                     /\ tb.tag = "Union"
                     /\ \E i \in DOMAIN tb.args : tb.args[i] = ta)

\* C12: intersect(a, b) is a when equate_types(a, b) holds and Never
\* otherwise: intersect(Int, Int) = Int, intersect(Int, Float) = Never, and
\* the result is never a type other than a or Never.
C12_Intersect ==
    tres.op = "intersect" =>
        /\ tres.ty \in {ta, TNever}
        /\ (tres.ty = ta) = (equate_types(ta, tb) \/ ta = TNever)
        /\ (ta = TInt /\ tb = TInt) => tres.ty = TInt
        /\ (ta = TInt /\ tb = TFloat) => tres.ty = TNever

\* intersect(Int, Int) has returned Int
C12_Witness ==
    /\ tres.op = "intersect"
    /\ ta = TInt /\ tb = TInt
    /\ tres.ty = TInt

\* the declared element type (or key and value types) of a container accepts
\* the candidates: each candidate is a subtype of the declared type
Accepts(kind, k, v, c) ==
    /\ c.tag = kind
    /\ is_subtype(v, c.args[Len(c.args)])
    /\ kind = "Map" => is_subtype(k, c.args[1])

\* C13: the insertion validators return true only when the container is of
\* the matching kind and the candidate type is a subtype of its declared
\* element type (for a map, key and value both); false for any other kind of
\* type.
C13_InsertionAcceptsSubtype ==
    /\ tres.op = "validate_array_insertion" =>
          (tres.bool => Accepts("Array", tres.key, ta, tb))
    /\ tres.op = "validate_set_insertion" =>
          (tres.bool => Accepts("Set", tres.key, ta, tb))
    /\ tres.op = "validate_map_insertion" =>
          (tres.bool => Accepts("Map", tres.key, ta, tb))

(***************************************************************************)
(* Walker: the scope walker of styxc_walker                                *)
(***************************************************************************)
\* Statements, as far as the walker looks at them: the variant, the declared
\* name and, for a function, its return type expression ("None" when absent).
Stmt(kind, name, ret) == [kind |-> kind, name |-> name, ret |-> ret]

\* Expressions: the variant, its payload (literal kind, identifier or
\* operator) and its child expressions (lhs and rhs of a BinaryExpr).
Expr(kind, arg, kids) == [kind |-> kind, arg |-> arg, kids |-> kids]

\* From<String> for Type, on the names it converts (any other name panics
\* and is not among the inputs)
Type_from(s) ==
    CASE s = "()" -> TUnit
      [] s = "bool" -> TBool
      [] s = "char" -> TChar
      [] s = "float" -> TFloat
      [] s = "int" -> TInt
      [] s = "str" -> TString

\* ret_type_expr.map_or(Type::Unit, |type_expr| type_expr.value.into())
RetType(ret) == IF ret = "None" THEN TUnit ELSE Type_from(ret)

Function(name, linkage, ret_type) ==
    [name |-> name, args |-> <<>>, linkage |-> linkage, ret_type |-> ret_type]

Variable(name, mutable, ty) == [name |-> name, mutable |-> mutable, ty |-> ty]

NoFunction == Function("", "-", TNever)
NoVariable == Variable("", FALSE, TNever)

\* Stack::push
Stack_push(contents, item) == Append(contents, item)

\* Stack::pop: the contents that stay (no method of Walker calls it)
Stack_pop(contents) ==
    IF contents = <<>> THEN contents
    ELSE SubSeq(contents, 1, Len(contents) - 1)

\* Stack::find: the last item that satisfies the predicate, if any; the
\* predicate of both callers is equality of the item's name with a name
Stack_find(contents, name, none) ==
    LET hits == {i \in DOMAIN contents : contents[i].name = name}
    IN  IF hits = {} THEN [found |-> FALSE, item |-> none]
        ELSE [found |-> TRUE, item |-> contents[Max(hits)]]

\* lookup_function that searches from the oldest record
lookup_function_Oldest(fs, name) ==
    LET hits == {i \in DOMAIN fs : fs[i].name = name}
    IN  IF hits = {} THEN [found |-> FALSE, item |-> NoFunction]
        ELSE [found |-> TRUE, item |-> fs[CHOOSE i \in hits : \A j \in hits : i <= j]]

\* Walker::lookup_function
lookup_function(fs, name) ==
    Stack_find(fs, name, NoFunction)

\* Walker::lookup_variable
lookup_variable(vs, name) ==
    Stack_find(vs, name, NoVariable)

\* Walker::declare_function: the functions frame afterwards
declare_function(fs, func) ==
    Stack_push(fs, Function(func.name, "Local", RetType(func.ret)))

\* declare_external_function that registers the function as a local one
declare_external_function_Local(fs, func) ==
    Stack_push(fs, Function(func.name, "Local", RetType(func.ret)))

\* Walker::declare_external_function: the functions frame afterwards
declare_external_function(fs, func) ==
    Stack_push(fs, Function(func.name, "External", RetType(func.ret)))

RECURSIVE declare_all_in_stmts(_, _)
\* Walker::declare_all_in_stmts: the functions frame afterwards
declare_all_in_stmts(fs, stmts) ==
    IF stmts = <<>> THEN fs
    ELSE declare_all_in_stmts(
            CASE Head(stmts).kind = "FuncDecl" ->
                    declare_function(fs, Head(stmts))
              [] Head(stmts).kind = "ExternFunc" ->
                    declare_external_function(fs, Head(stmts))
              [] OTHER -> fs,
            Tail(stmts))

\* enter_block that opens a fresh frame for the block
enter_block_Scoped(fs, stmts) == declare_all_in_stmts(<<>>, stmts)

\* Walker::enter_block: the functions frame afterwards
enter_block(fs, stmts) == declare_all_in_stmts(fs, stmts)

\* the outcome of an evaluation: a Type, or a panic (todo!())
Returns(t) == [panicked |-> FALSE, ty |-> t]
Panics == [panicked |-> TRUE, ty |-> TNever]

LiteralType(l) ==
    CASE l = "Bool" -> TBool
      [] l = "Int" -> TInt
      [] l = "Float" -> TFloat
      [] l = "String" -> TString
      [] l = "Char" -> TChar
      [] l = "Array" -> Array(TInfer)

\* the Ident arm with Never for an unresolved identifier
Ident_type_UnresolvedNever(vs, name) ==
    LET var == lookup_variable(vs, name)
    IN  IF var.found THEN var.item.ty ELSE TNever

\* Walker::get_expr_type, the Expr::Ident arm: the type of the variable the
\* lookup returns, Infer when it returns None
Ident_type(vs, name) ==
    LET var == lookup_variable(vs, name)
    IN  IF var.found THEN var.item.ty ELSE TInfer

\* the right operand taken from the right-hand child
BinaryExpr_rhs_RightChild(expr) == expr.kids[2]

\* Walker::get_expr_type, the Expr::BinaryExpr arm: the expressions whose
\* types are bound to lhs and to rhs; both are bin_op.value.lhs.value
BinaryExpr_rhs(expr) == expr.kids[1]
BinaryExpr_lhs(expr) == expr.kids[1]

RECURSIVE get_expr_type(_, _)
\* Walker::get_expr_type; Block, FuncCall, Conditional, Loop and While are
\* todo!()
get_expr_type(vs, expr) ==
    CASE expr.kind = "Literal" -> Returns(LiteralType(expr.arg))
      [] expr.kind = "Ident" -> Returns(Ident_type(vs, expr.arg))
      [] expr.kind = "BinaryExpr" ->
            LET lhs == get_expr_type(vs, BinaryExpr_lhs(expr))
                rhs == get_expr_type(vs, BinaryExpr_rhs(expr))
            IN  IF lhs.panicked \/ rhs.panicked THEN Panics
                ELSE Returns(intersect(lhs.ty, rhs.ty))
      [] OTHER -> Panics

(***************************************************************************)
(* The inputs of the walker: blocks of at most MaxStmts statements, and a  *)
(* functions frame of at most MaxFrame records.                            *)
(***************************************************************************)
MaxStmts == 2
MaxFrame == 3

FuncDecls ==
    {Stmt("FuncDecl", "f", "None"), Stmt("FuncDecl", "f", "int"),
     Stmt("FuncDecl", "g", "None")}
ExternFuncs ==
    {Stmt("ExternFunc", "f", "None"), Stmt("ExternFunc", "g", "int")}
Declarations == {Stmt("Declaration", "x", "None")}
OtherStmts == {Stmt("Other", "", "None")}
Stmts == FuncDecls \cup ExternFuncs \cup Declarations \cup OtherStmts

Blocks == UNION {[1..n -> Stmts] : n \in 0..MaxStmts}

FunctionNames == {"f", "g", "h"}
VariableNames == {"x", "y"}

Lit(l) == Expr("Literal", l, <<>>)
Ident(n) == Expr("Ident", n, <<>>)
BinaryExpr(l, r) == Expr("BinaryExpr", "Plus", <<l, r>>)

Operands ==
    {Lit("Int"), Lit("Float"), Lit("Char"), Ident("x"), Expr("Block", "", <<>>)}

Exprs ==
    {Lit(l) : l \in {"Bool", "Int", "Float", "String", "Char", "Array"}}
    \cup {Ident(n) : n \in VariableNames}
    \cup {Expr(k, "", <<>>) :
             k \in {"Block", "FuncCall", "Conditional", "Loop", "While"}}
    \cup {BinaryExpr(l, r) : l \in Operands, r \in Operands}
    \cup {BinaryExpr(BinaryExpr(Lit("Int"), Lit("Float")), r) : r \in Operands}

\* the last call made on the walker and what it gave back
Call(op, name, stmts, expr) ==
    [op |-> op, name |-> name, stmts |-> stmts, expr |-> expr]
Ret(panicked, found, fn, var, ty) ==
    [panicked |-> panicked, found |-> found, fn |-> fn, var |-> var, ty |-> ty]

NoCall == Call("new", "", <<>>, Lit("Int"))
Done == Ret(FALSE, FALSE, NoFunction, NoVariable, TNever)
Panicked == Ret(TRUE, FALSE, NoFunction, NoVariable, TNever)

\* Walker::new
WkInit ==
    /\ functions = <<>>
    /\ variables = <<>>
    /\ current_function = "None"
    /\ wcall = NoCall
    /\ wret = Done
    /\ walk = "-"
    /\ source = <<>> /\ pc = "-" /\ cursor = 0 /\ tokens = <<>>
    /\ result = NoResult /\ lit = NoToken
    /\ ops = <<>> /\ tree = <<>>
    /\ ta = "-" /\ tb = "-" /\ tres = "-"

\* a panic unwinds the session: nothing is called on the walker afterwards
Alive == ~wret.panicked

OtherVars == <<lexvars, opvars, tyvars, walk>>

\* enter_block(block)
EnterBlock ==
    /\ Alive
    /\ \E b \in Blocks :
          /\ Len(enter_block(functions, b)) <= MaxFrame
          /\ functions' = enter_block(functions, b)
          /\ wcall' = Call("enter_block", "", b, NoCall.expr)
    /\ wret' = Done
    /\ UNCHANGED <<variables, current_function, OtherVars>>

\* declare_all_in_stmts(stmts)
DeclareAllInStmts ==
    /\ Alive
    /\ \E b \in Blocks :
          /\ Len(declare_all_in_stmts(functions, b)) <= MaxFrame
          /\ functions' = declare_all_in_stmts(functions, b)
          /\ wcall' = Call("declare_all_in_stmts", "", b, NoCall.expr)
    /\ wret' = Done
    /\ UNCHANGED <<variables, current_function, OtherVars>>

\* declare_function(func)
DeclareFunction ==
    /\ Alive
    /\ Len(functions) < MaxFrame
    /\ \E st \in FuncDecls :
          /\ functions' = declare_function(functions, st)
          /\ wcall' = Call("declare_function", st.name, <<st>>, NoCall.expr)
    /\ wret' = Done
    /\ UNCHANGED <<variables, current_function, OtherVars>>

\* declare_external_function(extern_func)
DeclareExternalFunction ==
    /\ Alive
    /\ Len(functions) < MaxFrame
    /\ \E st \in ExternFuncs :
          /\ functions' = declare_external_function(functions, st)
          /\ wcall' = Call("declare_external_function", st.name, <<st>>,
                           NoCall.expr)
    /\ wret' = Done
    /\ UNCHANGED <<variables, current_function, OtherVars>>

\* declare_variable(decl): todo!()
DeclareVariable ==
    /\ Alive
    /\ \E st \in Declarations :
          wcall' = Call("declare_variable", st.name, <<st>>, NoCall.expr)
    /\ wret' = Panicked
    /\ UNCHANGED <<functions, variables, current_function, OtherVars>>

\* lookup_variable(name)
LookupVariable ==
    /\ Alive
    /\ \E n \in VariableNames :
          /\ wcall' = Call("lookup_variable", n, <<>>, NoCall.expr)
          /\ LET r == lookup_variable(variables, n)
             IN  wret' = Ret(FALSE, r.found, NoFunction, r.item, TNever)
    /\ UNCHANGED <<functions, variables, current_function, OtherVars>>

\* lookup_function(name)
LookupFunction ==
    /\ Alive
    /\ \E n \in FunctionNames :
          /\ wcall' = Call("lookup_function", n, <<>>, NoCall.expr)
          /\ LET r == lookup_function(functions, n)
             IN  wret' = Ret(FALSE, r.found, r.item, NoVariable, TNever)
    /\ UNCHANGED <<functions, variables, current_function, OtherVars>>

\* get_expr_type(expr)
GetExprType ==
    /\ Alive
    /\ \E e \in Exprs :
          /\ wcall' = Call("get_expr_type", "", <<>>, e)
          /\ LET r == get_expr_type(variables, e)
             IN  wret' = Ret(r.panicked, FALSE, NoFunction, NoVariable, r.ty)
    /\ UNCHANGED <<functions, variables, current_function, OtherVars>>

\* next_stmt(stmt): todo!() on a Declaration, a function registered for
\* FuncDecl and ExternFunc, nothing for the other statements
NextStmt ==
    /\ Alive
    /\ \E st \in Stmts :
          /\ wcall' = Call("next_stmt", st.name, <<st>>, NoCall.expr)
          /\ CASE st.kind = "Declaration" ->
                    /\ wret' = Panicked
                    /\ functions' = functions
               [] st.kind = "FuncDecl" ->
                    /\ Len(functions) < MaxFrame
                    /\ wret' = Done
                    /\ functions' = declare_function(functions, st)
               [] st.kind = "ExternFunc" ->
                    /\ Len(functions) < MaxFrame
                    /\ wret' = Done
                    /\ functions' = declare_external_function(functions, st)
               [] OTHER ->
                    /\ wret' = Done
                    /\ functions' = functions
    /\ UNCHANGED <<variables, current_function, OtherVars>>

WkNext ==
    \/ EnterBlock
    \/ DeclareAllInStmts
    \/ DeclareFunction
    \/ DeclareExternalFunction
    \/ DeclareVariable
    \/ LookupVariable
    \/ LookupFunction
    \/ GetExprType
    \/ NextStmt

WkSpec == WkInit /\ [][WkNext]_vars

(***************************************************************************)
(* Properties of the walker                                                *)
(***************************************************************************)
\* the positions of the records named n in a frame
Named(frame, n) == {i \in DOMAIN frame : frame[i].name = n}

IsPrefix(s, t) == Len(s) <= Len(t) /\ SubSeq(t, 1, Len(s)) = s

\* C14: lookup_variable and lookup_function return the most recently pushed
\* record of the name, or an absence value, and never fail; declaring a name
\* that exists leaves the older records where they are and puts the new one
\* after them.
C14_LookupMostRecent ==
    [][/\ wcall'.op = "lookup_function" =>
            /\ ~wret'.panicked
            /\ wret'.found = (Named(functions', wcall'.name) # {})
            /\ wret'.found =>
                  wret'.fn = functions'[Max(Named(functions', wcall'.name))]
       /\ wcall'.op = "lookup_variable" =>
            /\ ~wret'.panicked
            /\ wret'.found = (Named(variables', wcall'.name) # {})
            /\ wret'.found =>
                  wret'.var = variables'[Max(Named(variables', wcall'.name))]
       /\ wcall'.op \in {"declare_function", "declare_external_function"} =>
            /\ IsPrefix(functions, functions')
            /\ Len(functions') = Len(functions) + 1
            /\ functions'[Len(functions')].name = wcall'.name
      ]_vars

\* lookup_function("f") has returned the newer of two records named f
C14_Witness ==
    /\ wcall.op = "lookup_function"
    /\ wcall.name = "f"
    /\ wret.found
    /\ \E i, j \in Named(functions, "f") :
          i < j /\ functions[i] # functions[j] /\ wret.fn = functions[j]

\* the function and external-function declarations of a statement list
Hoisted(stmts) ==
    {i \in DOMAIN stmts : stmts[i].kind \in {"FuncDecl", "ExternFunc"}}

LinkageOf(st) == IF st.kind = "FuncDecl" THEN "Local" ELSE "External"

C16_NextStmtDeclares ==
    (wcall.op = "next_stmt" /\ wcall.stmts[1].kind = "Declaration") =>
        /\ ~wret.panicked
        /\ lookup_variable(variables, wcall.name).found

\* C17: get_expr_type on an identifier returns the type of the most recently
\* declared variable of that name, and Infer, without an error, when there
\* is none.
C17_IdentType ==
    (wcall.op = "get_expr_type" /\ wcall.expr.kind = "Ident") =>
        /\ ~wret.panicked
        /\ LET hits == Named(variables, wcall.expr.arg)
           IN  wret.ty = IF hits = {} THEN TInfer
                         ELSE variables[Max(hits)].ty

\* get_expr_type has returned Infer for an identifier that no variable has
C17_Witness ==
    /\ wcall.op = "get_expr_type"
    /\ wcall.expr = Ident("x")
    /\ Named(variables, "x") = {}
    /\ ~wret.panicked
    /\ wret.ty = TInfer

\* C18: get_expr_type on a binary expression returns intersect(T, T), T the
\* type of the left operand, whatever the right operand is.
C18_BinaryFromLeft ==
    (wcall.op = "get_expr_type" /\ wcall.expr.kind = "BinaryExpr") =>
        LET left == get_expr_type(variables, wcall.expr.kids[1])
        IN  ~left.panicked =>
                /\ ~wret.panicked
                /\ wret.ty = intersect(left.ty, left.ty)

\* get_expr_type has returned Int for an Int literal plus a Float literal
C18_Witness ==
    /\ wcall.op = "get_expr_type"
    /\ wcall.expr = BinaryExpr(Lit("Int"), Lit("Float"))
    /\ ~wret.panicked
    /\ wret.ty = TInt

\* C19: get_expr_type on a block expression returns Unit.
C19_BlockIsUnit ==
    (wcall.op = "get_expr_type" /\ wcall.expr.kind = "Block") =>
        /\ ~wret.panicked
        /\ wret.ty = TUnit

\* C20: the frames are append-only: no operation of the walker shortens a
\* frame, removes a record or reorders records, so a function that
\* lookup_function finds is found after every later operation.
C20_AppendOnly ==
    [][/\ IsPrefix(functions, functions')
       /\ IsPrefix(variables, variables')
       /\ \A n \in FunctionNames :
             lookup_function(functions, n).found
                => lookup_function(functions', n).found
      ]_vars

\* a later block has been entered and a function registered before it is
\* still in the frame
C20_Witness ==
    /\ wcall.op = "enter_block"
    /\ Hoisted(wcall.stmts) # {}
    /\ Len(functions) > Cardinality(Hoisted(wcall.stmts))
    /\ functions[1].name = "g"
    /\ \A i \in DOMAIN wcall.stmts : wcall.stmts[i].name # "g"
    /\ lookup_function(functions, "g").found

(***************************************************************************)
(* Properties of the token lexer on expressions and on block comments      *)
(***************************************************************************)
ArithmeticChars == {"+", "-", "*", "/", "%"}

RECURSIVE ExpectedKinds(_, _)
\* Reading from position p a text of digits, arithmetic operators and
\* blanks: one Literal(Int(Decimal)) per run of digits and one operator
\* kind per operator character, in source order.
ExpectedKinds(s, p) ==
    IF p > Len(s) THEN <<>>
    ELSE IF s[p] = " " THEN ExpectedKinds(s, p + 1)
    ELSE IF s[p] \in Digit
    THEN <<Kind("Literal", LitInt("Decimal"))>>
             \o ExpectedKinds(s, p + Run(s, p, Digit))
    ELSE <<Kind(PunctKind[s[p]], NoLit)>> \o ExpectedKinds(s, p + 1)

\* an infix expression: operands and operators alternate, operands at both
\* ends
IsInfixExpression(s) ==
    /\ \A i \in DOMAIN s : s[i] \in Digit \cup ArithmeticChars \cup {" "}
    /\ LET e == ExpectedKinds(s, 1)
       IN  /\ Len(e) % 2 = 1
           /\ \A i \in DOMAIN e : (e[i].tag = "Literal") = (i % 2 = 1)

\* C21: tokenizing an infix arithmetic expression over unsigned integer
\* literals gives one Literal(Int(Decimal)) token per operand and one
\* operator token per operator, in source order, with or without blanks
\* between operator and operand.
C21_InfixTokens ==
    (pc = "done" /\ IsInfixExpression(source)) =>
        /\ result.tag = "Ok"
        /\ [i \in DOMAIN result.tokens |-> result.tokens[i].kind]
              = ExpectedKinds(source, 1)

\* the places of a text where a star-slash begins
Closers(s) == {j \in 1..(Len(s) - 1) : s[j] = "*" /\ s[j + 1] = "/"}

\* C23: a block comment token starts at slash-star and ends at the nearest
\* following star-slash: its slice holds no star-slash before its last two
\* characters, so two comments with code between them are two tokens.
C23_BlockCommentNearestEnd ==
    \A i \in DOMAIN tokens :
        tokens[i].kind.tag = "BlockComment" =>
            Closers(tokens[i].slice) \cap 3..(Len(tokens[i].slice) - 2) = {}

(***************************************************************************)
(* A caller that walks blocks in the intended order: enter_block(block),   *)
(* then next_stmt on each statement of the block in sequence.  walk holds  *)
(* the block, the position of the next statement, and the size the         *)
(* functions frame had when the block was entered.                         *)
(***************************************************************************)
MaxRecords == 4

Walk(block, pos, base) == [block |-> block, pos |-> pos, base |-> base]
NoWalk == Walk(<<>>, 0, 0)

\* Walker::next_stmt: the outcome and the functions frame afterwards
next_stmt(fs, stmt) ==
    CASE stmt.kind = "Declaration" -> [panicked |-> TRUE, functions |-> fs]
      [] stmt.kind = "FuncDecl" ->
            [panicked |-> FALSE, functions |-> declare_function(fs, stmt)]
      [] stmt.kind = "ExternFunc" ->
            [panicked |-> FALSE,
             functions |-> declare_external_function(fs, stmt)]
      [] OTHER -> [panicked |-> FALSE, functions |-> fs]

WalkInit ==
    /\ functions = <<>>
    /\ variables = <<>>
    /\ current_function = "None"
    /\ wcall = NoCall
    /\ wret = Done
    /\ walk = NoWalk
    /\ source = <<>> /\ pc = "-" /\ cursor = 0 /\ tokens = <<>>
    /\ result = NoResult /\ lit = NoToken
    /\ ops = <<>> /\ tree = <<>>
    /\ ta = "-" /\ tb = "-" /\ tres = "-"

\* the caller enters a block: enter_block(block)
WalkEnter ==
    /\ Alive
    /\ walk = NoWalk
    /\ \E b \in Blocks :
          /\ 2 * Len(enter_block(functions, b)) - Len(functions) <= MaxRecords
          /\ functions' = enter_block(functions, b)
          /\ walk' = Walk(b, 1, Len(functions))
          /\ wcall' = Call("enter_block", "", b, NoCall.expr)
    /\ wret' = Done
    /\ UNCHANGED <<variables, current_function, lexvars, opvars, tyvars>>

\* the caller gets to the next statement of the block: next_stmt(stmt)
WalkNextStmt ==
    /\ Alive
    /\ walk.pos \in DOMAIN walk.block
    /\ LET stmt == walk.block[walk.pos]
           r == next_stmt(functions, stmt)
       IN  /\ functions' = r.functions
           /\ wret' = IF r.panicked THEN Panicked ELSE Done
           /\ wcall' = Call("next_stmt", stmt.name, <<stmt>>, NoCall.expr)
    /\ walk' = Walk(walk.block, walk.pos + 1, walk.base)
    /\ UNCHANGED <<variables, current_function, lexvars, opvars, tyvars>>

\* the caller is through the block and leaves it
WalkLeave ==
    /\ Alive
    /\ walk.pos = Len(walk.block) + 1
    /\ walk' = NoWalk
    /\ UNCHANGED <<functions, variables, current_function, wcall, wret,
                   lexvars, opvars, tyvars>>

WalkNext == WalkEnter \/ WalkNextStmt \/ WalkLeave

WalkSpec == WalkInit /\ [][WalkNext]_vars

\* C22: when a block has been walked in the intended order, the functions
\* frame holds exactly one record more for each function or
\* external-function declaration of the block.
C22_OneRecordPerDeclaration ==
    (Alive /\ walk.pos = Len(walk.block) + 1) =>
        Len(functions) - walk.base = Cardinality(Hoisted(walk.block))

====
